---- MODULE Spec2Model ----
(***************************************************************************)
(* Model of the research loop of ResearchCoordinator (src/coordinator.py): *)
(* the lexical scorer (_tok, _match_score), the ranker/filter and the      *)
(* round loop of research() / _research_queries(), with the rendering of   *)
(* the sources by the caller (src/app.py).                                 *)
(*                                                                         *)
(* Strings are sequences of one-character strings.  A score is the exact   *)
(* rational [n, d] of the value the code computes in floating point; on    *)
(* the catalogue below every comparison the code makes (>= MIN_SCORE and   *)
(* the ordering of two scores of one query) has the same outcome in        *)
(* IEEE-754 doubles as in exact arithmetic.                                *)
(***************************************************************************)
EXTENDS Integers, Sequences, FiniteSets, TLC

(***************************************************************************)
(* Bounds of the model.                                                    *)
(***************************************************************************)
MaxRoundsCap == 2      \* max_rounds ranges over 0..MaxRoundsCap
MaxPicks     == 2      \* picks_per_query ranges over 0..MaxPicks
MaxBatch     == 2      \* longest query batch an adapter returns
MaxHits      == 2      \* longest raw hit list the search provider returns

(***************************************************************************)
(* Characters and strings.                                                 *)
(***************************************************************************)
UpperChars == <<"A","B","C","D","E","F","G","H","I","J","K","L","M",
                "N","O","P","Q","R","S","T","U","V","W","X","Y","Z">>
LowerChars == <<"a","b","c","d","e","f","g","h","i","j","k","l","m",
                "n","o","p","q","r","s","t","u","v","w","x","y","z">>
DigitChars == <<"0","1","2","3","4","5","6","7","8","9">>

Range(s) == {s[i] : i \in DOMAIN s}

\* str.lower() on one character
Lower(c) ==
    IF \E i \in DOMAIN UpperChars : UpperChars[i] = c
    THEN LowerChars[CHOOSE i \in DOMAIN UpperChars : UpperChars[i] = c]
    ELSE c

\* _TOKEN_RE = [^a-z0-9]+ : the characters the regex does NOT match
IsTokenChar(c) == c \in Range(LowerChars) \cup Range(DigitChars)

\* s.lower() followed by _TOKEN_RE.sub(" ", s), character by character
\* (a run of separators becomes several spaces here and one in the code;
\* split() treats both alike)
Normalize(s) ==
    [i \in DOMAIN s |-> IF IsTokenChar(Lower(s[i])) THEN Lower(s[i]) ELSE " "]

\* str.split(): maximal runs of non-space characters
RECURSIVE SplitFrom(_, _, _)
SplitFrom(s, i, cur) ==
    IF i > Len(s)
    THEN IF cur = <<>> THEN <<>> ELSE <<cur>>
    ELSE IF s[i] = " "
         THEN IF cur = <<>>
              THEN SplitFrom(s, i + 1, <<>>)
              ELSE <<cur>> \o SplitFrom(s, i + 1, <<>>)
         ELSE SplitFrom(s, i + 1, Append(cur, s[i]))

Split(s) == SplitFrom(s, 1, <<>>)

_STOP_WORDS ==
    { <<"t","h","e">>, <<"a">>, <<"a","n">>, <<"a","n","d">>, <<"o","r">>,
      <<"o","f">>, <<"i","n">>, <<"o","n">>, <<"f","o","r">>, <<"t","o">>,
      <<"w","i","t","h">>, <<"b","y">>, <<"a","b","o","u","t">>, <<"i","s">>,
      <<"a","r","e">>, <<"w","a","s">>, <<"w","e","r","e">>, <<"b","e">> }

\* a filter that keeps the stop words
IsContentTokenNoStop(t) == t # <<>>

\* if t and t not in _STOP_WORDS
IsContentToken(t) == t # <<>> /\ t \notin _STOP_WORDS

\* _tok(s): the list of tokens
_tok(s) == SelectSeq(Split(Normalize(s)), IsContentToken)

\* " ".join(tokens)
RECURSIVE Join(_)
Join(toks) ==
    IF toks = <<>> THEN <<>>
    ELSE IF Len(toks) = 1 THEN toks[1]
    ELSE toks[1] \o <<" ">> \o Join(Tail(toks))

\* Python's `a in b` on strings
IsSubstring(a, b) ==
    \E i \in 0..(Len(b) - Len(a)) :
        \A j \in 1..Len(a) : b[i + j] = a[j]

Max(a, b) == IF a >= b THEN a ELSE b

(***************************************************************************)
(* Scores: exact rationals n/d with d > 0.                                 *)
(***************************************************************************)
ScoreGE(x, y) == x.n * y.d >= y.n * x.d
ScoreLT(x, y) == ~ScoreGE(x, y)
ScoreEQ(x, y) == x.n * y.d = y.n * x.d

ZeroScore == [n |-> 0, d |-> 1]
MIN_SCORE == [n |-> 26, d |-> 100]

\* _match_score(query, title, url, snippet)
_match_score(query, title, url, snippet) ==
    LET qt == _tok(query)
        q  == Range(qt)
        t  == Range(_tok(title))
        s  == Range(_tok(snippet))
        u  == Range(_tok(url))
        k  == Max(1, Cardinality(q))
        bonus == IF IsSubstring(Join(qt), Join(_tok(title))) THEN 1 ELSE 0
    IN  IF q = {} THEN ZeroScore
        ELSE [n |-> 60 * Cardinality(q \cap t) + 25 * Cardinality(q \cap s)
                    + 15 * Cardinality(q \cap u) + 10 * bonus * k,
              d |-> 100 * k]


(***************************************************************************)
(* Catalogue of the strings the external services return.                  *)
(***************************************************************************)
QCat    == <<"c","a","t">>                                      \* "cat"
QDog    == <<"D","o","g">>                                      \* "Dog"
QDogCat == <<"t","h","e"," ","D","o","g",","," ","c","a","t">>  \* "the Dog, cat"
QThe    == <<"t","h","e">>                                      \* "the"
Queries == {QCat, QDog, QDogCat, QThe}

EmptyStr == <<>>

\* raw hits as the provider's dicts; a key the dict lacks is EmptyStr,
\* which is what r.get(key, "") yields for it
HitCat  == [title   |-> <<"C","a","t">>,               \* "Cat"
            href    |-> <<"x","/","1">>,
            body    |-> EmptyStr,
            snippet |-> EmptyStr]
HitPets == [title   |-> <<"P","e","t","s">>,           \* "Pets"
            href    |-> <<"x","/","2">>,
            body    |-> <<"a"," ","D","o","g">>,       \* "a Dog"
            snippet |-> EmptyStr]
HitZoo  == [title   |-> <<"Z","o","o">>,               \* "Zoo"
            href    |-> <<"x","/","c","a","t">>,
            body    |-> EmptyStr,
            snippet |-> <<"c","a","t","-","d","o","g">>]  \* "cat-dog"
HitDog  == [title   |-> <<"D","o","g">>,               \* "Dog"
            href    |-> <<"x","/","3">>,
            body    |-> EmptyStr,
            snippet |-> EmptyStr]
Hits == {HitCat, HitPets, HitZoo, HitDog}

SummaryText == "summary"
ReportText  == "report"
NoReport    == "none"

SeqsUpTo(S, n) == UNION {[1..m -> S] : m \in 0..n}

\* the sequences without a repeated element
DistinctSeqsUpTo(S, n) ==
    {s \in SeqsUpTo(S, n) :
        \A i \in DOMAIN s : \A j \in DOMAIN s : i # j => s[i] # s[j]}

\* what the adapters and the provider return within a session: the query
\* agent asks for "cat", the follow-up agent for "Dog", and the provider
\* answers a query with distinct hits
GeneratedQueries == {QCat}
FollowUpQueries  == {QDog}
SessionHits      == {HitCat, HitZoo}

GeneratedBatches == SeqsUpTo(GeneratedQueries, MaxBatch)
FollowUpBatches  == SeqsUpTo(FollowUpQueries, MaxBatch)
HitLists         == DistinctSeqsUpTo(SessionHits, MaxHits)

\* the raw hit lists the ranker is applied to on its own
RankHitLists == SeqsUpTo(Hits, MaxHits)

(***************************************************************************)
(* Ranker / filter of _research_queries.                                   *)
(***************************************************************************)
\* snip = r.get("body", "") or r.get("snippet", "") or ""
Snip(r) == IF r.body # EmptyStr THEN r.body ELSE r.snippet

\* score = _match_score(q, title, url, snip), tabulated once for the
\* catalogue
ScoreTable ==
    [q \in Queries |->
        [r \in Hits |-> _match_score(q, r.title, r.href, Snip(r))]]

\* the (score, title, url) tuple appended to ranked for one raw hit
Candidate(q, r) ==
    [score |-> ScoreTable[q][r],
     title |-> r.title,
     url   |-> r.href]

\* ranked before sorting: one candidate per raw hit, in raw order
Scored(q, raw_hits) == [i \in DOMAIN raw_hits |-> Candidate(q, raw_hits[i])]

\* a sort that puts x before the elements of equal score
InsertDescBeforeEqual(sorted, x) ==
    LET n == Cardinality({i \in DOMAIN sorted : ScoreLT(x.score, sorted[i].score)})
    IN  SubSeq(sorted, 1, n) \o <<x>> \o SubSeq(sorted, n + 1, Len(sorted))

\* list.sort(reverse=True, key=score) is stable: x goes after every element
\* whose score is >= its own
InsertDesc(sorted, x) ==
    LET n == Cardinality({i \in DOMAIN sorted : ScoreGE(sorted[i].score, x.score)})
    IN  SubSeq(sorted, 1, n) \o <<x>> \o SubSeq(sorted, n + 1, Len(sorted))

RECURSIVE SortDesc(_)
SortDesc(s) ==
    IF s = <<>> THEN <<>>
    ELSE InsertDesc(SortDesc(SubSeq(s, 1, Len(s) - 1)), s[Len(s)])

\* a slice that does not cut
SliceAll(s, n) == s

\* Python's s[:n], n possibly negative
Slice(s, n) ==
    IF n >= 0
    THEN SubSeq(s, 1, IF n < Len(s) THEN n ELSE Len(s))
    ELSE SubSeq(s, 1, Max(0, Len(s) + n))

AboveThreshold(x) == ScoreGE(x.score, MIN_SCORE)

\* the selection without its fallback
SelectPicksNoFallback(ranked, ppq) == Slice(SelectSeq(ranked, AboveThreshold), ppq)

\* picks = [x for x in ranked if x[0] >= MIN_SCORE][:picks_per_query]
\* if not picks and ranked: picks = ranked[:1]
SelectPicks(ranked, ppq) ==
    LET p == Slice(SelectSeq(ranked, AboveThreshold), ppq)
    IN  IF p = <<>> /\ ranked # <<>> THEN Slice(ranked, 1) ELSE p

Ranked(q, raw_hits) == SortDesc(Scored(q, raw_hits))

PicksFor(q, raw_hits, ppq) == SelectPicks(Ranked(q, raw_hits), ppq)


(***************************************************************************)
(* State of one research session.                                          *)
(***************************************************************************)
VARIABLES
    max_rounds,         \* self.max_rounds
    picks_per_query,    \* self.picks_per_query
    pc,                 \* position of research(): the next external call
    round_no,           \* round_no of research(); 0 before round 1
    generated_queries,  \* self.generated_queries
    queries,            \* the batch of the running _research_queries call
    qi,                 \* index in queries of the query being processed
    raw,                \* raw: what _ddg_search returned for that query
    picks,              \* picks selected for that query
    pi,                 \* index in picks of the pick being summarized
    search_results,     \* self.search_results
    decision,           \* the last follow-up decision
    final_report,       \* the value research() returned
    calls,              \* history: number of calls of the once-per-phase adapters
    last_call,          \* history: kind of the last external call
    rounds_run,         \* history: number of _research_queries calls
    summarized,         \* history: the results the summarizations produced
    last_tag,           \* history: <<round, query, pick>> of the last append
    added,              \* history: results appended for the current query
    search_raised,      \* history: the last provider call raised
    raised_in_batch,    \* history: a provider call of this batch raised
    error,              \* history: the call whose exception left research()
    outstanding,        \* number of external calls started and not returned
    digest,             \* the numbered results _synthesize sent to the agent
    sources,            \* the numbered entries render_sources displayed
    download,           \* the numbered entries build_download_markdown wrote
    app,                \* position of the caller (app.py) after research()
    query_resp          \* query_resp.queries: what the query agent returned

vars == <<max_rounds, picks_per_query, pc, round_no, generated_queries,
          queries, qi, raw, picks, pi, search_results, decision,
          final_report, calls, last_call, rounds_run, summarized, last_tag,
          added, search_raised, raised_in_batch, error, outstanding, digest,
          sources, download, app, query_resp>>

\* the variables of the caller
appvars == <<digest, sources, download, app>>

CountedKinds == {"generate", "followup", "synthesize"}
NoDecision   == [made |-> FALSE, should_follow_up |-> FALSE, queries |-> <<>>]

\* ResearchCoordinator.__init__
Init ==
    /\ max_rounds \in 0..MaxRoundsCap
    /\ picks_per_query \in 0..MaxPicks
    /\ pc = "start"
    /\ round_no = 0
    /\ generated_queries = <<>>
    /\ queries = <<>>
    /\ qi = 0
    /\ raw = <<>>
    /\ picks = <<>>
    /\ pi = 0
    /\ search_results = <<>>
    /\ decision = NoDecision
    /\ final_report = NoReport
    /\ calls = [k \in CountedKinds |-> 0]
    /\ last_call = "none"
    /\ rounds_run = 0
    /\ summarized = <<>>
    /\ last_tag = <<0, 0, 0>>
    /\ added = 0
    /\ search_raised = FALSE
    /\ raised_in_batch = FALSE
    /\ error = "none"
    /\ outstanding = 0
    /\ digest = <<>>
    /\ sources = <<>>
    /\ download = <<>>
    /\ app = "running"
    /\ query_resp = <<>>

Called(k) == [calls EXCEPT ![k] = @ + 1]

(***************************************************************************)
(* Control flow of research() and _research_queries().                     *)
(***************************************************************************)
\* a loop test that is off by one
LoopCondInclusive(r, m) == r <= m

\* while round_no < self.max_rounds
LoopCond(r, m) == r < m

\* a loop exit that returns without the synthesis
AfterRoundSkipsSynthesis(r, m) == IF r < m THEN "followup" ELSE "done"

\* where research() continues once _research_queries has returned
AfterRound(r, m) == IF LoopCond(r, m) THEN "followup" ELSE "synth"

\* a round that fails on an empty batch
EnterBatchEmptyFails(qs, r, m) == IF qs = <<>> THEN "failed" ELSE "search"

\* where control goes when the for loop over queries starts on batch qs
EnterBatch(qs, r, m) == IF qs = <<>> THEN AfterRound(r, m) ELSE "search"

\* where control goes when query number i of batch qs is finished
AfterQuery(qs, i, r, m) == IF i < Len(qs) THEN "search" ELSE AfterRound(r, m)

\* a handler that still writes the report once an adapter has failed
PropagateToSynthesis(kind) == IF kind = "synthesize" THEN "failed" ELSE "synth"

\* an exception of an awaited adapter call: research() has no handler
Propagate(kind) == "failed"

\* a loop that ignores the decision
ContinuesAlways(d) == TRUE

\* if not decision.should_follow_up: break
Continues(d) == d.should_follow_up

\* a loop that forgets to count the round
NextRoundNoStuck(r) == r

\* round_no += 1
NextRoundNo(r) == r + 1

\* _ddg_search without its try/except
DdgSearchNoCatch(outcome) == [raised |-> ~outcome.ok, hits |-> outcome.hits]

\* _ddg_search: what the call does with the provider's outcome
_ddg_search(outcome) ==
    [raised |-> FALSE,
     hits   |-> IF outcome.ok THEN outcome.hits ELSE <<>>]

\* SearchResult(title=title, url=url, summary=...)
SearchResult(pick, summary) ==
    [title |-> pick.title, url |-> pick.url, summary |-> summary]

\* an append that skips a URL already in the list
AppendResultDedup(results, r) ==
    IF \E i \in DOMAIN results : results[i].url = r.url
    THEN results
    ELSE Append(results, r)

\* self.search_results.append(...)
AppendResult(results, r) == Append(results, r)

(***************************************************************************)
(* Outcomes of the external calls: each returns a value or raises.         *)
(***************************************************************************)
GenerateOutcomes ==
    {[ok |-> TRUE, queries |-> b] : b \in GeneratedBatches}
        \cup {[ok |-> FALSE, queries |-> <<>>]}

SearchOutcomes ==
    {[ok |-> TRUE, hits |-> h] : h \in HitLists}
        \cup {[ok |-> FALSE, hits |-> <<>>]}

FollowUpOutcomes ==
    {[ok |-> TRUE, should_follow_up |-> f, queries |-> b] :
        f \in BOOLEAN, b \in FollowUpBatches}
        \cup {[ok |-> FALSE, should_follow_up |-> FALSE, queries |-> <<>>]}

\* an exception that leaves research() unwinds its frame and the frame of
\* _research_queries: their locals are gone
Unwound ==
    /\ queries' = <<>>
    /\ qi' = 0
    /\ raw' = <<>>
    /\ picks' = <<>>
    /\ pi' = 0

\* the external call research() makes at each position
KindAt(p) ==
    CASE p = "start"     -> "generate"
      [] p = "search"    -> "search"
      [] p = "summarize" -> "summarize"
      [] p = "followup"  -> "followup"
      [] p = "synth"     -> "synthesize"

CallPositions == {"start", "search", "summarize", "followup", "synth"}

\* a call that is started and not waited for
NeverSuspended(o) == FALSE

\* await Runner.run(...) and the blocking call of _ddg_search: the
\* coroutine does not go on while the call it made is outstanding
Suspended(o) == o > 0

\* a copy that drops the queries it has already seen
StoreQueriesUnique(qs) ==
    SelectSeq([i \in DOMAIN qs |->
                  IF \E j \in 1..(i - 1) : qs[j] = qs[i] THEN <<"-">> ELSE qs[i]],
              LAMBDA q : q # <<"-">>)

\* self.generated_queries = list(query_resp.queries)
StoreQueries(qs) == qs

\* a numbering that starts at 0
EnumerateFromZero(results, start) ==
    [i \in DOMAIN results |-> [n |-> i - 1, r |-> results[i]]]

\* enumerate(results, start): the pairs (number, result) in list order
Enumerate(results, start) ==
    [i \in DOMAIN results |-> [n |-> start + i - 1, r |-> results[i]]]

(***************************************************************************)
(* An external call starts: research() passes the request and waits.  The  *)
(* request of the synthesis call is the digest _synthesize builds from     *)
(* search_results (lines 281-284).                                         *)
(***************************************************************************)
Call ==
    /\ pc \in CallPositions
    /\ ~Suspended(outstanding)
    /\ outstanding' = outstanding + 1
    /\ last_call' = KindAt(pc)
    /\ digest' = IF pc = "synth" THEN Enumerate(search_results, 1) ELSE digest
    /\ UNCHANGED <<max_rounds, picks_per_query, pc, round_no,
                   generated_queries, queries, qi, raw, picks, pi,
                   search_results, decision, final_report, calls, rounds_run,
                   summarized, last_tag, added, search_raised,
                   raised_in_batch, error, sources, download, app,
                   query_resp>>

(***************************************************************************)
(* research(), lines 141-157: query generation, then round 1 starts.       *)
(***************************************************************************)
GenerateQueries ==
    /\ pc = "start"
    /\ outstanding >= 1
    /\ outstanding' = outstanding - 1
    /\ UNCHANGED appvars
    /\ \E out \in GenerateOutcomes :
        /\ calls' = Called("generate")
        /\ last_call' = "generate"
        /\ IF out.ok
           THEN /\ query_resp' = out.queries
                /\ generated_queries' = StoreQueries(out.queries)
                /\ round_no' = 1
                /\ rounds_run' = rounds_run + 1
                /\ queries' = generated_queries'
                /\ qi' = IF queries' = <<>> THEN 0 ELSE 1
                /\ pc' = EnterBatch(queries', 1, max_rounds)
                /\ UNCHANGED <<error, raw, picks, pi>>
           ELSE /\ pc' = Propagate("generate")
                /\ error' = "generate"
                /\ Unwound
                /\ UNCHANGED <<generated_queries, round_no, rounds_run,
                               query_resp>>
    /\ UNCHANGED <<max_rounds, picks_per_query, search_results, decision,
                   final_report, summarized, last_tag, added, search_raised,
                   raised_in_batch>>

(***************************************************************************)
(* _research_queries, lines 204-227: search one query and rank its hits.   *)
(***************************************************************************)
Search ==
    /\ pc = "search"
    /\ outstanding >= 1
    /\ outstanding' = outstanding - 1
    /\ UNCHANGED <<appvars, query_resp>>
    /\ \E out \in SearchOutcomes :
        LET r  == _ddg_search(out)
            ps == PicksFor(queries[qi], r.hits, picks_per_query)
            to == AfterQuery(queries, qi, round_no, max_rounds)
        IN  /\ last_call' = "search"
            /\ IF r.raised
               THEN /\ pc' = "failed"
                    /\ error' = "search"
                    /\ Unwound
                    /\ UNCHANGED <<added, search_raised, raised_in_batch>>
               ELSE /\ raw' = r.hits
                    /\ queries' = queries
                    /\ picks' = ps
                    /\ added' = 0
                    /\ search_raised' = ~out.ok
                    /\ raised_in_batch' = (raised_in_batch \/ ~out.ok)
                    /\ IF ps # <<>>
                       THEN pc' = "summarize" /\ pi' = 1 /\ qi' = qi
                       ELSE /\ pc' = to
                            /\ pi' = 0
                            /\ qi' = IF to = "search" THEN qi + 1 ELSE qi
                    /\ UNCHANGED error
    /\ UNCHANGED <<max_rounds, picks_per_query, round_no, generated_queries,
                   search_results, decision, final_report, calls, rounds_run,
                   summarized, last_tag>>

(***************************************************************************)
(* _research_queries, lines 230-243: summarize one pick and append it.     *)
(* raw is dead once the last pick of the query is summarized; the model    *)
(* forgets it there.                                                       *)
(***************************************************************************)
Summarize ==
    /\ pc = "summarize"
    /\ outstanding >= 1
    /\ outstanding' = outstanding - 1
    /\ UNCHANGED <<appvars, query_resp>>
    /\ \E ok \in BOOLEAN :
        LET res == SearchResult(picks[pi], SummaryText)
            to  == AfterQuery(queries, qi, round_no, max_rounds)
        IN  /\ last_call' = "summarize"
            /\ IF ok
               THEN /\ search_results' = AppendResult(search_results, res)
                    /\ summarized' = Append(summarized, res)
                    /\ last_tag' = <<round_no, qi, pi>>
                    /\ added' = added + Len(search_results')
                                      - Len(search_results)
                    /\ IF pi < Len(picks)
                       THEN /\ pc' = "summarize"
                            /\ pi' = pi + 1
                            /\ qi' = qi
                            /\ raw' = raw
                       ELSE /\ pc' = to
                            /\ pi' = pi
                            /\ qi' = IF to = "search" THEN qi + 1 ELSE qi
                            /\ raw' = <<>>
                    /\ UNCHANGED <<error, queries, picks>>
               ELSE /\ pc' = Propagate("summarize")
                    /\ error' = "summarize"
                    /\ Unwound
                    /\ UNCHANGED <<search_results, summarized, last_tag,
                                   added>>
    /\ UNCHANGED <<max_rounds, picks_per_query, round_no, generated_queries,
                   decision, final_report, calls, rounds_run, search_raised,
                   raised_in_batch>>

(***************************************************************************)
(* research(), lines 160-175: follow-up decision, break or next round.     *)
(* The guard on the number of decisions keeps the history counters finite; *)
(* the code asks for fewer than max_rounds decisions.                      *)
(***************************************************************************)
FollowUp ==
    /\ pc = "followup"
    /\ outstanding >= 1
    /\ outstanding' = outstanding - 1
    /\ UNCHANGED <<appvars, query_resp>>
    /\ calls["followup"] <= MaxRoundsCap
    /\ \E out \in FollowUpOutcomes :
        LET d == [made |-> TRUE, should_follow_up |-> out.should_follow_up,
                  queries |-> out.queries]
            r == NextRoundNo(round_no)
        IN  /\ calls' = Called("followup")
            /\ last_call' = "followup"
            /\ IF ~out.ok
               THEN /\ pc' = Propagate("followup")
                    /\ error' = "followup"
                    /\ Unwound
                    /\ UNCHANGED <<decision, round_no, rounds_run, added,
                                   search_raised, raised_in_batch>>
               ELSE /\ decision' = d
                    /\ UNCHANGED error
                    /\ IF ~Continues(d)
                       THEN /\ pc' = "synth"
                            /\ UNCHANGED <<round_no, rounds_run, queries, qi,
                                           raw, picks, pi, added,
                                           search_raised, raised_in_batch>>
                       ELSE /\ round_no' = r
                            /\ rounds_run' = rounds_run + 1
                            /\ queries' = d.queries
                            /\ qi' = IF d.queries = <<>> THEN 0 ELSE 1
                            /\ pc' = EnterBatch(d.queries, r, max_rounds)
                            /\ raw' = <<>>
                            /\ picks' = <<>>
                            /\ pi' = 0
                            /\ added' = 0
                            /\ search_raised' = FALSE
                            /\ raised_in_batch' = FALSE
    /\ UNCHANGED <<max_rounds, picks_per_query, generated_queries,
                   search_results, final_report, summarized, last_tag>>

(***************************************************************************)
(* research(), lines 178-181, and _synthesize.                             *)
(***************************************************************************)
Synthesize ==
    /\ pc = "synth"
    /\ outstanding >= 1
    /\ outstanding' = outstanding - 1
    /\ UNCHANGED <<appvars, query_resp>>
    /\ \E ok \in BOOLEAN :
        /\ calls' = Called("synthesize")
        /\ last_call' = "synthesize"
        /\ IF ok
           THEN /\ pc' = "done"
                /\ final_report' = ReportText
                /\ UNCHANGED <<error, queries, qi, raw, picks, pi>>
           ELSE /\ pc' = Propagate("synthesize")
                /\ error' = "synthesize"
                /\ Unwound
                /\ UNCHANGED final_report
    /\ UNCHANGED <<max_rounds, picks_per_query, round_no, generated_queries,
                   search_results, decision, rounds_run, summarized, last_tag,
                   added, search_raised, raised_in_batch>>

(***************************************************************************)
(* The caller, app.py lines 300-311: once research() has returned the      *)
(* report it reads coordinator.search_results, renders the sources and     *)
(* builds the download.                                                    *)
(***************************************************************************)
\* render_sources(results): nothing is rendered for an empty list
RenderSources ==
    /\ pc = "done"
    /\ app = "running"
    /\ sources' = IF search_results = <<>> THEN <<>>
                  ELSE Enumerate(search_results, 1)
    /\ app' = "rendered"
    /\ UNCHANGED <<max_rounds, picks_per_query, pc, round_no,
                   generated_queries, queries, qi, raw, picks, pi,
                   search_results, decision, final_report, calls, last_call,
                   rounds_run, summarized, last_tag, added, search_raised,
                   raised_in_batch, error, outstanding, digest, download,
                   query_resp>>

\* build_download_markdown(final_report_md, results): the Sources section
BuildDownload ==
    /\ pc = "done"
    /\ app = "rendered"
    /\ download' = IF search_results # <<>> THEN Enumerate(search_results, 1)
                   ELSE <<>>
    /\ app' = "built"
    /\ UNCHANGED <<max_rounds, picks_per_query, pc, round_no,
                   generated_queries, queries, qi, raw, picks, pi,
                   search_results, decision, final_report, calls, last_call,
                   rounds_run, summarized, last_tag, added, search_raised,
                   raised_in_batch, error, outstanding, digest, sources,
                   query_resp>>

Next ==
    \/ Call
    \/ GenerateQueries
    \/ Search
    \/ Summarize
    \/ FollowUp
    \/ Synthesize
    \/ RenderSources
    \/ BuildDownload

Spec == Init /\ [][Next]_vars

\* every awaited call completes: the event loop runs the coroutine on
FairSpec == Spec /\ WF_vars(Next)

(***************************************************************************)
(* The ranker on its own: lines 209-227 of _research_queries applied to    *)
(* one query and one raw hit list.                                         *)
(***************************************************************************)
RankInit ==
    /\ max_rounds = 1
    /\ picks_per_query \in 0..MaxPicks
    /\ pc = "rank"
    /\ round_no = 1
    /\ generated_queries \in {<<q>> : q \in Queries}
    /\ queries = generated_queries
    /\ qi = 1
    /\ raw = <<>>
    /\ picks = <<>>
    /\ pi = 0
    /\ search_results = <<>>
    /\ decision = NoDecision
    /\ final_report = NoReport
    /\ calls = [k \in CountedKinds |-> 0]
    /\ last_call = "none"
    /\ rounds_run = 1
    /\ summarized = <<>>
    /\ last_tag = <<0, 0, 0>>
    /\ added = 0
    /\ search_raised = FALSE
    /\ raised_in_batch = FALSE
    /\ error = "none"
    /\ outstanding = 0
    /\ digest = <<>>
    /\ sources = <<>>
    /\ download = <<>>
    /\ app = "running"
    /\ query_resp = <<>>

RankHits ==
    /\ pc = "rank"
    /\ \E h \in RankHitLists :
        /\ raw' = h
        /\ picks' = PicksFor(queries[qi], h, picks_per_query)
    /\ pc' = "ranked"
    /\ UNCHANGED <<max_rounds, picks_per_query, round_no, generated_queries,
                   queries, qi, pi, search_results, decision, final_report,
                   calls, last_call, rounds_run, summarized, last_tag, added,
                   search_raised, raised_in_batch, error, outstanding>>
    /\ UNCHANGED <<appvars, query_resp>>

\* lines 230-240 when the summarizations return: the picks are summarized
\* and appended one by one, in pick order
RankSummarize ==
    /\ pc = "ranked"
    /\ added < Len(picks)
    /\ LET res == SearchResult(picks[added + 1], SummaryText)
       IN  /\ search_results' = AppendResult(search_results, res)
           /\ summarized' = Append(summarized, res)
    /\ added' = added + 1
    /\ UNCHANGED <<max_rounds, picks_per_query, pc, round_no,
                   generated_queries, queries, qi, raw, picks, pi, decision,
                   final_report, calls, last_call, rounds_run, last_tag,
                   search_raised, raised_in_batch, error, outstanding>>
    /\ UNCHANGED <<appvars, query_resp>>

RankNext ==
    \/ RankHits
    \/ RankSummarize

RankSpec == RankInit /\ [][RankNext]_vars

(***************************************************************************)
(* The scorer on its own: lines 211-225 of _research_queries applied to    *)
(* one query and a raw list of one hit, scored by _match_score itself.     *)
(***************************************************************************)
QTheOf == <<"t","h","e"," ","o","f">>                           \* "the of"

ScoreQueries == Queries \cup {EmptyStr, QTheOf}

\* the values of a hit's title, href and body
ScoreStrings == {EmptyStr, HitCat.title, HitZoo.href, HitPets.body, QThe}

ScoreHits ==
    {[title |-> t, href |-> u, body |-> b, snippet |-> EmptyStr] :
        t \in ScoreStrings, u \in ScoreStrings, b \in ScoreStrings}

ScoreInit ==
    /\ max_rounds = 1
    /\ picks_per_query = 1
    /\ pc = "score"
    /\ round_no = 1
    /\ generated_queries \in {<<q>> : q \in ScoreQueries}
    /\ queries = generated_queries
    /\ qi = 1
    /\ raw \in {<<r>> : r \in ScoreHits}
    /\ picks = <<>>
    /\ pi = 0
    /\ search_results = <<>>
    /\ decision = NoDecision
    /\ final_report = NoReport
    /\ calls = [k \in CountedKinds |-> 0]
    /\ last_call = "none"
    /\ rounds_run = 1
    /\ summarized = <<>>
    /\ last_tag = <<0, 0, 0>>
    /\ added = 0
    /\ search_raised = FALSE
    /\ raised_in_batch = FALSE
    /\ error = "none"
    /\ outstanding = 0
    /\ digest = <<>>
    /\ sources = <<>>
    /\ download = <<>>
    /\ app = "running"
    /\ query_resp = <<>>

\* the one hit is scored, ranked and selected: with one hit in raw the
\* selection keeps it whatever its score is (threshold or fallback)
ScoreHit ==
    /\ pc = "score"
    /\ LET r == raw[1]
           c == [score |-> _match_score(queries[qi], r.title, r.href, Snip(r)),
                 title |-> r.title,
                 url   |-> r.href]
       IN  picks' = SelectPicks(SortDesc(<<c>>), picks_per_query)
    /\ pc' = "scored"
    /\ UNCHANGED <<max_rounds, picks_per_query, round_no, generated_queries,
                   queries, qi, raw, pi, search_results, decision,
                   final_report, calls, last_call, rounds_run, summarized,
                   last_tag, added, search_raised, raised_in_batch, error,
                   outstanding>>
    /\ UNCHANGED <<appvars, query_resp>>

ScoreNext == ScoreHit

ScoreSpec == ScoreInit /\ [][ScoreNext]_vars

TypeOK ==
    /\ pc \in {"start", "search", "summarize", "followup", "synth", "done", "failed"}
    /\ round_no \in 0..(MaxRoundsCap + 3)
    /\ qi \in 0..MaxBatch
    /\ pi \in 0..(MaxHits + 1)


(***************************************************************************)
(* Properties.                                                             *)
(***************************************************************************)
Stopped == decision.made /\ ~decision.should_follow_up

\* C1 (as stated): for any max_rounds = N, research() runs at most N rounds
\* and the round counter never exceeds max_rounds.
C1_RoundCapAnyN ==
    /\ rounds_run <= max_rounds
    /\ round_no <= max_rounds

\* C1 (amended): round 1 always runs, so the number of rounds and the round
\* counter never exceed max(1, max_rounds), whatever the follow-up decisions
\* are; for max_rounds >= 1 that is at most max_rounds rounds.
C1_RoundCap ==
    /\ rounds_run <= Max(1, max_rounds)
    /\ round_no <= Max(1, max_rounds)
    /\ rounds_run = round_no

\* the cap is reached although the last decision asked to continue
C1_Witness ==
    /\ max_rounds >= 2
    /\ rounds_run = max_rounds
    /\ decision.made /\ decision.should_follow_up
    /\ pc = "synth"

\* C2 (as stated): the follow-up adapter is called only with
\* round_no < max_rounds, never when max_rounds = 1, and at most
\* max_rounds - 1 times in a session.
C2_FollowUpBoundAnyN ==
    /\ pc = "followup" => round_no < max_rounds
    /\ max_rounds = 1 => calls["followup"] = 0
    /\ pc = "done" => calls["followup"] <= max_rounds - 1

C2_FollowUpState ==
    /\ pc = "followup" => round_no < max_rounds
    /\ max_rounds = 1 => calls["followup"] = 0
    /\ calls["followup"] <= Max(0, max_rounds - 1)
    /\ (pc = "synth" /\ ~Stopped) => round_no >= max_rounds

C2_FollowUpStep ==
    calls'["followup"] # calls["followup"] =>
        /\ pc = "followup"
        /\ round_no >= 1
        /\ round_no < max_rounds
        /\ rounds_run = calls["followup"] + 1

\* C2 (amended): the follow-up adapter is called only after a completed
\* round and with round_no < max_rounds; a round that ends with
\* round_no = max_rounds leads to synthesis without a decision; with
\* max_rounds = 1 it is never called; a session asks for at most
\* max(0, max_rounds - 1) decisions.
C2_FollowUpOnlyBelowCap == []C2_FollowUpState /\ [][C2_FollowUpStep]_vars

\* round max_rounds ended and synthesis is next, after max_rounds - 1
\* decisions that all asked to continue
C2_Witness ==
    /\ max_rounds >= 2
    /\ round_no = max_rounds
    /\ pc = "synth"
    /\ ~Stopped
    /\ calls["followup"] = max_rounds - 1
    /\ search_results # <<>>

C3_StoppedState ==
    Stopped =>
        /\ pc \in {"synth", "done", "failed"}
        /\ last_call \in {"followup", "synthesize"}
        /\ calls["followup"] = 1 => (rounds_run = 1 /\ round_no = 1)

C3_StoppedStep ==
    Stopped =>
        /\ last_call' = "synthesize"
        /\ search_results' = search_results
        /\ summarized' = summarized
        /\ rounds_run' = rounds_run
        /\ round_no' = round_no

\* C3: once a decision says should_follow_up = false its queries are not
\* searched, no search or summarization follows, the next external call is
\* synthesis, and a false decision after round 1 means exactly one round.
C3_ShortCircuit == []C3_StoppedState /\ [][C3_StoppedStep]_vars

\* a false decision after round 1 that carried queries, session finished
C3_Witness ==
    /\ Stopped
    /\ decision.queries # <<>>
    /\ calls["followup"] = 1
    /\ max_rounds >= 2
    /\ pc = "done"


\* C4: when no external call raises, research() terminates: synthesis is
\* reached and the report returned, whatever the follow-up decisions are.
\* (A session in which a call raised ends in "failed".)
C4_Terminates ==
    <>(pc = "failed" \/ (pc = "done" /\ final_report = ReportText))

\* the report is returned after the cap was reached by decisions that all
\* asked to continue
C4_Witness ==
    /\ pc = "done"
    /\ final_report = ReportText
    /\ error = "none"
    /\ max_rounds >= 2
    /\ rounds_run = max_rounds
    /\ ~Stopped

\* <<round, query, pick>> positions in the order the loops visit them
TagBefore(a, b) ==
    \/ a[1] < b[1]
    \/ a[1] = b[1] /\ a[2] < b[2]
    \/ a[1] = b[1] /\ a[2] = b[2] /\ a[3] < b[3]

C5_AppendStep ==
    \/ search_results' = search_results
    \/ /\ pc = "summarize"
       /\ search_results' =
              Append(search_results, SearchResult(picks[pi], SummaryText))
       /\ TagBefore(last_tag, <<round_no, qi, pi>>)

\* C5: search_results is append-only and equals, at every point, the
\* results summarized so far in round, query, pick order: nothing is
\* removed, reordered, overwritten or deduplicated.
C5_AppendOnlyInOrder ==
    [](search_results = summarized) /\ [][C5_AppendStep]_vars

\* the same URL was picked for query 1 and for query 2 of one batch and is
\* in the list twice
C5_Witness ==
    /\ Len(search_results) = 2
    /\ search_results[1].url = search_results[2].url
    /\ last_tag[2] = 2
    /\ last_tag[3] = 1

\* C6: a provider call that raises gives its query no candidates and no
\* summarization, the batch goes on with the next query, and no exception
\* leaves research() because of it.
C6_SearchFailureContained ==
    /\ error # "search"
    /\ (search_raised /\ last_call = "search") =>
          /\ raw = <<>>
          /\ picks = <<>>
          /\ added = 0
          /\ pc \in {"search", "followup", "synth"}
          /\ pc = "search" => qi <= Len(queries)
          /\ pc # "search" => qi = Len(queries)

\* the search of query 1 raised and the picks of query 2 were appended
C6_Witness ==
    /\ raised_in_batch
    /\ ~search_raised
    /\ qi = 2
    /\ added >= 1
    /\ last_tag[2] = 2

AdapterKinds == {"generate", "summarize", "followup", "synthesize"}

C7_FailedState ==
    /\ error # "none" => pc = "failed"
    /\ pc = "failed" =>
          /\ error \in AdapterKinds
          /\ last_call = error
          /\ final_report = NoReport
          /\ error # "synthesize" => calls["synthesize"] = 0
          /\ calls["generate"] = 1

\* C7: an exception of query generation, a summarization, a follow-up
\* decision or synthesis ends research() with that error: the call is not
\* retried, no external call follows and no report is returned.
C7_AdapterFailureAborts == []C7_FailedState /\ [][pc # "failed"]_vars

\* a summarization raised after results had been accumulated
C7_Witness ==
    /\ pc = "failed"
    /\ error = "summarize"
    /\ search_results # <<>>

\* C8 (as stated): for every value of picks_per_query a query gets at most
\* picks_per_query candidates and adds at most that many results.
C8_AtMostPicksAnyValue ==
    /\ Len(picks) <= picks_per_query
    /\ added <= picks_per_query

\* C8 (amended): for every picks_per_query >= 1 a query gets at most
\* picks_per_query candidates and adds at most that many results.
C8_AtMostPicks ==
    picks_per_query >= 1 =>
        /\ Len(picks) <= picks_per_query
        /\ added <= picks_per_query

\* two hits clear the threshold and one is kept
C8_Witness ==
    /\ picks_per_query = 1
    /\ pc = "summarize"
    /\ Len(raw) >= 2
    /\ \A i \in DOMAIN raw : AboveThreshold(Candidate(queries[qi], raw[i]))
    /\ Len(picks) = 1

AllBelow(q, hits) ==
    \A i \in DOMAIN hits : ScoreLT(Candidate(q, hits[i]).score, MIN_SCORE)

\* the first hit, in raw order, among those of maximal score
FirstMax(q, hits) ==
    LET c == Scored(q, hits)
        j == CHOOSE j \in DOMAIN c :
                /\ \A i \in DOMAIN c : ScoreGE(c[j].score, c[i].score)
                /\ \A i \in 1..(j - 1) : ScoreLT(c[i].score, c[j].score)
    IN  c[j]

\* C9: on a non-empty raw hit list whose scores are all below 0.26 the
\* ranker returns exactly one candidate, the first maximum-scoring hit in
\* raw order.
C9_Fallback ==
    (pc = "ranked" /\ raw # <<>> /\ AllBelow(queries[qi], raw)) =>
        picks = <<FirstMax(queries[qi], raw)>>

\* two different hits tie below the threshold, with a positive score, and
\* the one that came first is the pick
C9_Witness ==
    /\ pc = "ranked"
    /\ Len(raw) >= 2
    /\ AllBelow(queries[qi], raw)
    /\ raw[1].href # raw[2].href
    /\ ScoreEQ(Candidate(queries[qi], raw[1]).score,
               Candidate(queries[qi], raw[2]).score)
    /\ Candidate(queries[qi], raw[1]).score.n > 0
    /\ picks = <<Candidate(queries[qi], raw[1])>>

\* C10: a query whose search returned hits gets at least one candidate and,
\* once its picks are summarized, at least one appended result; a query
\* gets no candidate only when its search returned nothing or raised.
C10_AtLeastOnePick ==
    /\ raw # <<>> => (picks # <<>> /\ pc \in {"summarize", "failed"})
    /\ (picks = <<>> /\ last_call = "search") => raw = <<>>
    /\ (picks # <<>> /\ pc # "summarize" /\ error # "summarize") => added >= 1

\* a query whose hits were all below the threshold is finished with one
\* appended result and the next query is about to be searched
C10_Witness ==
    /\ pc = "search"
    /\ Len(picks) = 1
    /\ ~AboveThreshold(picks[1])
    /\ added = 1

\* f maps every pick to the position in raw of the hit it was made from
PicksFrom(f) ==
    /\ \A i \in DOMAIN picks : picks[i] = Candidate(queries[qi], raw[f[i]])
    /\ \A i \in DOMAIN picks : \A j \in DOMAIN picks : i # j => f[i] # f[j]

\* among hits of equal score the picks are the earliest ones of raw, in the
\* order of raw
TiesInRawOrder(f) ==
    /\ \A i \in DOMAIN picks : \A j \in DOMAIN picks :
          (i < j /\ ScoreEQ(picks[i].score, picks[j].score)) => f[i] < f[j]
    /\ \A i \in DOMAIN picks : \A k \in DOMAIN raw :
          (k < f[i] /\ ScoreEQ(Candidate(queries[qi], raw[k]).score,
                               picks[i].score))
              => \E j \in DOMAIN picks : f[j] = k

\* C11: the picks of a query are in non-increasing score order, hits of
\* equal score keep the relative order they had in the raw list, and the
\* results appended for the query are the picks in that order.
C11_RankingStable ==
    pc = "ranked" =>
        /\ \A i \in DOMAIN picks : \A j \in DOMAIN picks :
              i < j => ScoreGE(picks[i].score, picks[j].score)
        /\ \E f \in [DOMAIN picks -> DOMAIN raw] :
              PicksFrom(f) /\ TiesInRawOrder(f)
        /\ search_results =
              [i \in 1..added |-> SearchResult(picks[i], SummaryText)]

\* two different hits tie above the threshold, both are picked in raw
\* order and both results are appended
C11_Witness ==
    /\ pc = "ranked"
    /\ Len(raw) = 2
    /\ raw[1] # raw[2]
    /\ AboveThreshold(Candidate(queries[qi], raw[1]))
    /\ ScoreEQ(Candidate(queries[qi], raw[1]).score,
               Candidate(queries[qi], raw[2]).score)
    /\ picks = Scored(queries[qi], raw)
    /\ added = 2
    /\ search_results[1].url = raw[1].href
    /\ search_results[2].url = raw[2].href

OneScore == [n |-> 1, d |-> 1]

\* C12 (as stated): for every query, title, url and snippet the score
\* returned by _match_score lies in [0, 1].
C12_ScoreInUnitInterval ==
    pc = "scored" =>
        /\ ScoreGE(picks[1].score, ZeroScore)
        /\ ScoreGE(OneScore, picks[1].score)

\* the queries of the catalogue that are empty or made of stop words only
StopWordQueries == {EmptyStr, QThe, QTheOf}

\* C13: the scorer returns 0 whenever the query has no token left after
\* tokenization and stop-word removal, whatever title, url and snippet
\* are, and returns 0 for a query with a token left when title, url and
\* snippet are all empty.
C13_ZeroScore ==
    pc = "scored" =>
        /\ queries[qi] \in StopWordQueries => picks[1].score = ZeroScore
        /\ (raw[1].title = EmptyStr /\ raw[1].href = EmptyStr
                /\ Snip(raw[1]) = EmptyStr) => picks[1].score.n = 0

\* a query of stop words only was scored against a title, a url and a
\* snippet that all hold one of its stop words
C13_Witness ==
    /\ pc = "scored"
    /\ queries[qi] = QTheOf
    /\ raw[1].title = QThe
    /\ raw[1].href = QThe
    /\ Snip(raw[1]) = QThe
    /\ picks[1].score = ZeroScore

\* the results of search_results, each with its 1-based position
Positions ==
    [i \in 1..Len(search_results) |-> [n |-> i, r |-> search_results[i]]]

\* C14: the digest of the synthesis call lists every accumulated result
\* exactly once under its 1-based position in search_results, and the
\* sources rendered and the sources of the download carry the same
\* results under the same numbers.
C14_SameNumbering ==
    /\ last_call = "synthesize" => digest = Positions
    /\ app \in {"rendered", "built"} => sources = digest
    /\ app = "built" => download = digest

\* a report with three sources, of which two are the same URL, was
\* rendered and its download built
C14_Witness ==
    /\ app = "built"
    /\ Len(search_results) = 3
    /\ \E i \in 1..3 : \E j \in 1..3 :
          i < j /\ search_results[i].url = search_results[j].url
    /\ download[3].n = 3
    /\ download[3].r = search_results[3]
    /\ sources = download

\* C15: at most one external call is outstanding at any time, it is the
\* call of the position research() is at, the picks of a query are
\* summarized one after the other, and the search of a query starts only
\* when every pick of the query before it is summarized and appended.
C15_Sequential ==
    /\ outstanding <= 1
    /\ outstanding = 1 => (pc \in CallPositions /\ last_call = KindAt(pc))
    /\ pc \in {"done", "failed"} => outstanding = 0
    /\ pc = "summarize" => added = pi - 1
    /\ pc = "search" => added = Len(picks)

\* the search of the second query is outstanding, after the two picks of
\* the first query were summarized and appended
C15_Witness ==
    /\ outstanding = 1
    /\ pc = "search"
    /\ qi = 2
    /\ Len(picks) = 2
    /\ added = 2
    /\ last_tag = <<round_no, 1, 2>>

C16_SetStep ==
    generated_queries' # generated_queries =>
        /\ pc = "start"
        /\ calls["generate"] = 0
        /\ generated_queries' = query_resp'

\* C16: generated_queries is assigned by the query generation only, to the
\* queries the query agent returned, in their order; no later step changes
\* it and the queries of the follow-up decisions are not added to it.
C16_GeneratedQueriesSetOnce ==
    /\ [](generated_queries = query_resp)
    /\ [](\A i \in DOMAIN generated_queries :
              generated_queries[i] \notin FollowUpQueries)
    /\ [][C16_SetStep]_vars

\* research() returned after a follow-up round searched the decision's two
\* queries; generated_queries still holds the two generated ones
C16_Witness ==
    /\ pc = "done"
    /\ Len(generated_queries) = 2
    /\ decision.made /\ decision.should_follow_up
    /\ Len(decision.queries) = 2
    /\ decision.queries # generated_queries
    /\ rounds_run = 2
    /\ Len(search_results) >= 2

\* the positions of a round (ROUND_ACTIVE)
RoundPositions == {"search", "summarize"}

C17_PhaseState ==
    /\ calls["generate"] <= 1
    /\ calls["synthesize"] <= 1
    /\ (pc # "start" /\ error # "generate") =>
          (calls["generate"] = 1 /\ rounds_run >= 1)
    /\ pc = "start" => (last_call \in {"none", "generate"} /\ rounds_run = 0)
    /\ last_call \in {"search", "summarize", "followup"} =>
          (calls["generate"] = 1 /\ calls["synthesize"] = 0)
    /\ last_call = "synthesize" => pc \in {"synth", "done", "failed"}
    /\ pc = "done" =>
          /\ calls["generate"] = 1
          /\ calls["synthesize"] = 1
          /\ last_call = "synthesize"
          /\ final_report = ReportText

C17_PhaseStep ==
    /\ pc = "start" =>
          /\ pc' \in {"start", "failed", "followup", "synth"} \cup RoundPositions
          /\ pc' \notin {"start", "failed"} =>
                (rounds_run' = 1 /\ queries' = generated_queries')
    /\ pc \in RoundPositions =>
          /\ pc' \in RoundPositions \cup {"followup", "synth", "failed"}
          /\ rounds_run' = rounds_run
          /\ queries' \in {queries, <<>>}
          /\ pc' = "followup" => round_no < max_rounds
          /\ pc' = "synth" => round_no >= max_rounds
    /\ pc = "followup" =>
          /\ pc' \in RoundPositions \cup {"followup", "synth", "failed"}
          /\ rounds_run' # rounds_run =>
                /\ rounds_run' = rounds_run + 1
                /\ decision'.made /\ decision'.should_follow_up
                /\ queries' = decision'.queries
    /\ pc = "synth" =>
          /\ pc' \in {"synth", "done", "failed"}
          /\ rounds_run' = rounds_run
    /\ pc = "done" => (pc' = "done" /\ calls' = calls /\ last_call' = last_call)

\* a round that ends is followed by the follow-up evaluation (looked at
\* for max_rounds >= 1 only)
C17_RoundToFollowUp ==
    (max_rounds >= 1 /\ pc \in RoundPositions
        /\ pc' \notin RoundPositions \cup {"failed"}) => pc' = "followup"

\* C17 (as stated): the phases follow only the transitions INIT ->
\* GENERATING_QUERIES -> ROUND_ACTIVE -> EVALUATING_FOLLOWUP ->
\* (ROUND_ACTIVE | SYNTHESIZING) -> DONE, so the only phase after a round
\* is the follow-up evaluation.
C17_PhaseOrderChainOnly ==
    []C17_PhaseState /\ [][C17_PhaseStep /\ C17_RoundToFollowUp]_vars

\* C17 (amended): research() goes from query generation to round 1 on the
\* generated queries, from a round to the follow-up evaluation or, when the
\* cap is reached, directly to synthesis, from the follow-up evaluation to
\* a round on the decision's queries or to synthesis, and from synthesis
\* to its return; generation is called once and before any search,
\* synthesis once and after every other call.
C17_PhaseOrder == []C17_PhaseState /\ [][C17_PhaseStep]_vars

\* research() returned after two rounds, one decision and one synthesis
C17_Witness ==
    /\ pc = "done"
    /\ rounds_run = 2
    /\ calls = [generate |-> 1, followup |-> 1, synthesize |-> 1]
    /\ queries = decision.queries
    /\ queries # <<>>
    /\ Len(search_results) >= 2

\* the follow-up agent returned a decision to continue with no queries
EmptyDecisionStep ==
    /\ pc = "followup"
    /\ calls' # calls
    /\ error' = "none"
    /\ decision'.should_follow_up
    /\ decision'.queries = <<>>

\* a search returned and gave its query no pick
EmptySearchStep ==
    /\ pc = "search"
    /\ outstanding' < outstanding
    /\ picks' = <<>>

C18_EmptyRoundStep ==
    /\ EmptyDecisionStep =>
          /\ round_no' = round_no + 1
          /\ rounds_run' = rounds_run + 1
          /\ round_no' <= max_rounds
          /\ search_results' = search_results
          /\ pc' = IF round_no' < max_rounds THEN "followup" ELSE "synth"
    /\ EmptySearchStep =>
          /\ error' = "none"
          /\ search_results' = search_results
          /\ round_no' = round_no
          /\ pc' = IF qi < Len(queries) THEN "search"
                   ELSE IF round_no < max_rounds THEN "followup" ELSE "synth"

C18_EmptyRoundState ==
    /\ (pc = "done" /\ search_results = <<>>) =>
          (calls["synthesize"] = 1 /\ final_report = ReportText
              /\ digest = <<>>)
    /\ (pc = "failed" /\ search_results = <<>>) => error \in AdapterKinds

\* C18: a round without picks (a decision to continue with no queries, or
\* searches that all return nothing) raises no error, leaves search_results
\* unchanged, still counts as a round toward the cap, and the session goes
\* on to the next follow-up evaluation or to synthesis, which is called
\* even when search_results is empty.
C18_EmptyRound == []C18_EmptyRoundState /\ [][C18_EmptyRoundStep]_vars

\* research() returned a report on no results after a first round whose
\* search found nothing and a second round on an empty list of queries
C18_Witness ==
    /\ pc = "done"
    /\ search_results = <<>>
    /\ generated_queries # <<>>
    /\ decision.made /\ decision.should_follow_up
    /\ decision.queries = <<>>
    /\ rounds_run = 2
    /\ final_report = ReportText

====
